---- MODULE Spec2Model ----
(***************************************************************************)
(* CutClipAI: billing around process_video_task, the continuous-speech     *)
(* merge, the scoring and the diverse selection of ScoringService and the  *)
(* parallel clip rendering of VideoPipeline.process_optimized_async.       *)
(*                                                                         *)
(* Times are integers in tenths of a second (0.3 s = 3, 2.0 s = 20).       *)
(* Six specifications share the variables; each leaves the variables of    *)
(* the other parts at their initial values:                                *)
(*   Spec        the worker task and the wallet, two concurrent runs for   *)
(*               one user plus one coin purchase                           *)
(*   SpecMerge   ScoringService._find_continuous_speech_moments            *)
(*   SpecRender  the render pool of process_optimized_async                *)
(*   SpecRenderFair  the same pool with its scheduling, for termination    *)
(*   SpecSelect  ScoringService._select_diverse_clips                      *)
(*   SpecScore   ScoringService._calculate_score, called twice             *)
(***************************************************************************)
EXTENDS Integers, Sequences, FiniteSets, TLC

VARIABLES
    \* ---- wallet (PostgreSQL rows) ----
    userExists,      \* a users row for the user exists
    balance,         \* users.balance of that row (0 while there is no row)
    txns,            \* transactions rows, in commit order
    \* ---- process_video_task, per run ----
    pc,              \* position of each run
    seen,            \* balance returned by check_balance_for_video_processing
    work,            \* steps of the heavy work the run has gone through
    clips_count,     \* len(clip_paths) returned by the pipeline
    rd,              \* user.balance loaded by the charge_coins session
    result,          \* "status" of the returned dictionary
    failedAt,        \* where the run raised
    \* ---- add_coins (POST /buy), one request ----
    apc, ard, aamt,
    \* ---- _find_continuous_speech_moments ----
    segments, i, j, clip_segments, clips, mpc,
    min_duration,    \* self.min_duration of the ScoringService
    \* ---- process_optimized_async render pool ----
    llm_analysis,    \* "best_moments" of the LLM analysis (<<>>: none)
    best_moments,    \* the moments handed to the pool
    job,             \* state of the future of each clip index
    transcoded,      \* indices create_optimized_clip was called for
    clip_paths_dict, \* clip index -> path, in insertion order
    clip_paths,      \* the returned list
    rpc,
    \* ---- _select_diverse_clips ----
    sel_clips,       \* the clips argument, best score first
    max_clips,       \* the max_clips argument
    selected,        \* positions in sel_clips of the selected clips
    cand,            \* position of the candidate the loop is at
    selpc,
    \* ---- _calculate_score ----
    segment,         \* the combined segment that is scored
    total_duration,  \* total video duration
    analysis,        \* the llm_analysis argument (None or a dictionary)
    enabled,         \* self.llm_service.enabled
    scored           \* what the calls made so far returned

walletVars == <<userExists, balance, txns>>
taskVars   == <<pc, seen, work, clips_count, rd, result, failedAt>>
addVars    == <<apc, ard, aamt>>
mergeVars  == <<segments, i, j, clip_segments, clips, mpc, min_duration>>
renderVars == <<llm_analysis, best_moments, job, transcoded, clip_paths_dict,
                clip_paths, rpc>>
selectVars == <<sel_clips, max_clips, selected, cand, selpc>>
scoreVars  == <<segment, total_duration, analysis, enabled, scored>>
vars == <<walletVars, taskVars, addVars, mergeVars, renderVars, selectVars,
          scoreVars>>

(***************************************************************************)
(* Settings (app/core/config.py)                                           *)
(***************************************************************************)
CLIP_MIN_DURATION_SECONDS == 150
CLIP_MAX_DURATION_SECONDS == 450
MAX_CLIPS_COUNT == 6
CLIP_PROCESSING_MAX_WORKERS == 3
START_BALANCE_COINS == 6
COINS_PER_CLIP == 1
\* the scoring weights, in tenths (3.0 = 30)
SCORING_WEIGHT_ENERGY == 30
SCORING_WEIGHT_TEMPO_VARIATION == 25
SCORING_WEIGHT_PAUSES == 20
SCORING_WEIGHT_PUNCTUATION == 15
SCORING_WEIGHT_SPEECH_PACE == 20
SCORING_WEIGHT_STRUCTURE == 25
SCORING_WEIGHT_HOOK == 30
SCORING_WEIGHT_LLM == 50

(***************************************************************************)
(* Bounds of the model                                                     *)
(***************************************************************************)
MaxInitBalance == 7      \* balances 0..MaxInitBalance of an existing user
MaxLLMMoments == 7       \* moments the LLM returns to a worker run

MaxMoments == 4          \* moments the LLM returns to the render pool
MaxSegs == 3             \* transcript segments given to the merge
MaxCands == 3            \* clips given to the diverse selection

Tasks == {"t1", "t2"}    \* two concurrent process_video_task runs, one user
PurchaseAmounts == {1, 6}

\* ---------------------------------------------------------------------------
\* Parts that a specification does not exercise stay at these values.
\* ---------------------------------------------------------------------------
MergeIdle ==
    /\ segments = <<>> /\ i = 0 /\ j = 0 /\ clip_segments = <<>>
    /\ clips = <<>> /\ mpc = "idle" /\ min_duration = 0

RenderIdle ==
    /\ llm_analysis = <<>> /\ best_moments = <<>> /\ job = <<>>
    /\ transcoded = {}
    /\ clip_paths_dict = <<>> /\ clip_paths = <<>> /\ rpc = "idle"

SelectIdle ==
    /\ sel_clips = <<>> /\ max_clips = 0 /\ selected = <<>> /\ cand = 0
    /\ selpc = "idle"

None == [none |-> TRUE]

ScoreIdle ==
    /\ segment = None /\ total_duration = 0 /\ analysis = None
    /\ enabled = FALSE /\ scored = <<>>

WorkerIdle ==
    /\ userExists = FALSE /\ balance = 0 /\ txns = <<>>
    /\ pc = [p \in Tasks |-> "idle"]
    /\ seen = [p \in Tasks |-> 0]
    /\ work = [p \in Tasks |-> {}]
    /\ clips_count = [p \in Tasks |-> 0]
    /\ rd = [p \in Tasks |-> 0]
    /\ result = [p \in Tasks |-> "none"]
    /\ failedAt = [p \in Tasks |-> "none"]
    /\ apc = "idle" /\ ard = 0 /\ aamt = 0

(***************************************************************************)
(* Billing: validators.py, pricing.py, wallet.py, worker.py                *)
(***************************************************************************)

\* validators.py:52  max_cost = MAX_CLIPS_COUNT * COINS_PER_CLIP
max_cost == MAX_CLIPS_COUNT * COINS_PER_CLIP

\* Variant: the comparison is off by one coin.
has_sufficient_balance_off_by_one(b) == b >= max_cost - 1

\* validators.py:55
has_sufficient_balance(b) == b >= max_cost

\* Variant: the worst-case cost is charged whatever was rendered.
calculate_cost_worst_case(n) == MAX_CLIPS_COUNT * COINS_PER_CLIP

\* pricing.py:24
calculate_cost(n) == n * COINS_PER_CLIP

Transaction(type, amount, by) == [type |-> type, amount |-> amount, by |-> by]

\* The transactions that brought an existing user from the start balance
\* to balance b: a purchase (wallet.py:84-90) or a charge (137-143) made
\* before the runs of the model.
History(b) ==
    IF b = START_BALANCE_COINS THEN << >>
    ELSE << Transaction(IF b > START_BALANCE_COINS THEN "purchase"
                                                   ELSE "charge",
                        b - START_BALANCE_COINS, "past") >>

\* State after construction of the worker specification: the user has no row
\* yet, or has one with some balance and the history that led to it; both
\* runs are queued.
InitWorker ==
    /\ userExists \in BOOLEAN
    /\ balance \in (IF userExists THEN 0..MaxInitBalance ELSE {0})
    /\ txns = (IF userExists THEN History(balance) ELSE << >>)
    /\ pc = [p \in Tasks |-> "check"]
    /\ seen = [p \in Tasks |-> 0]
    /\ work = [p \in Tasks |-> {}]
    /\ clips_count = [p \in Tasks |-> 0]
    /\ rd = [p \in Tasks |-> 0]
    /\ result = [p \in Tasks |-> "none"]
    /\ failedAt = [p \in Tasks |-> "none"]
    /\ apc = "start" /\ ard = 0 /\ aamt = 0
    /\ MergeIdle /\ RenderIdle /\ SelectIdle /\ ScoreIdle

\* worker.py:55-64 after check_balance_for_video_processing returned b
AfterCheck(p, b) ==
    /\ seen' = [seen EXCEPT ![p] = b]
    /\ IF has_sufficient_balance(b)
         THEN /\ pc' = [pc EXCEPT ![p] = "download"]
              /\ result' = result
         ELSE /\ pc' = [pc EXCEPT ![p] = "done"]
              /\ result' = [result EXCEPT ![p] = "no_coins"]

\* Variant: the check takes the worst-case cost out of the balance.
CheckBalance_reserving(p) ==
    /\ pc[p] = "check"
    /\ IF userExists
         THEN /\ AfterCheck(p, balance)
              /\ balance' = IF has_sufficient_balance(balance)
                               THEN balance - max_cost ELSE balance
              /\ UNCHANGED <<userExists, txns>>
         ELSE /\ pc' = [pc EXCEPT ![p] = "create"]
              /\ UNCHANGED <<seen, result, walletVars>>
    /\ UNCHANGED <<work, clips_count, rd, failedAt, addVars, mergeVars,
                   renderVars, selectVars, scoreVars>>

\* worker.py:50 -> validators.py:53 -> wallet.py:32-48: the session's query.
\* An existing user's balance is returned; for a missing user the session
\* goes on to insert the row (CreateUser).
CheckBalance(p) ==
    /\ pc[p] = "check"
    /\ IF userExists
         THEN AfterCheck(p, balance)
         ELSE /\ pc' = [pc EXCEPT ![p] = "create"]
              /\ UNCHANGED <<seen, result>>
    /\ UNCHANGED <<walletVars, work, clips_count, rd, failedAt, addVars,
                   mergeVars, renderVars, selectVars, scoreVars>>

\* wallet.py:35-46: session.add(User(balance=start_balance)); commit.
\* telegram_id is unique (user.py:17-22): when another session inserted the
\* row in between, the commit raises; the call is outside the task's try
\* (worker.py:50), so the exception leaves the task.
CreateUser(p) ==
    /\ pc[p] = "create"
    /\ IF userExists
         THEN /\ pc' = [pc EXCEPT ![p] = "done"]
              /\ result' = [result EXCEPT ![p] = "raised"]
              /\ failedAt' = [failedAt EXCEPT ![p] = "check"]
              /\ UNCHANGED <<walletVars, seen>>
         ELSE /\ userExists' = TRUE
              /\ balance' = START_BALANCE_COINS
              /\ txns' = txns
              /\ AfterCheck(p, START_BALANCE_COINS)
              /\ failedAt' = failedAt
    /\ UNCHANGED <<work, clips_count, rd, addVars, mergeVars, renderVars,
                   selectVars, scoreVars>>

\* Variant: the exception is not caught and leaves the task.
Fail_uncaught(p, where) ==
    /\ pc' = [pc EXCEPT ![p] = "done"]
    /\ result' = [result EXCEPT ![p] = "raised"]
    /\ failedAt' = [failedAt EXCEPT ![p] = where]

\* worker.py:179-189: any exception inside the try ends the run with
\* status "error".
Fail(p, where) ==
    /\ pc' = [pc EXCEPT ![p] = "done"]
    /\ result' = [result EXCEPT ![p] = "error"]
    /\ failedAt' = [failedAt EXCEPT ![p] = where]

\* worker.py:70-98: create_temp_file and s3_service.download_file
Download(p) ==
    /\ pc[p] = "download"
    /\ work' = [work EXCEPT ![p] = @ \cup {"download"}]
    /\ \/ /\ pc' = [pc EXCEPT ![p] = "pipeline"]
          /\ UNCHANGED <<result, failedAt>>
       \/ Fail(p, "download")
    /\ UNCHANGED <<walletVars, seen, clips_count, rd, addVars, mergeVars,
                   renderVars, selectVars, scoreVars>>

\* Variant: the list of the LLM is taken as it comes.
Truncate_none(n) == n

\* pipeline.py:194-206: best_moments_list[:MAX_CLIPS_COUNT]
Truncate(n) == IF n > MAX_CLIPS_COUNT THEN MAX_CLIPS_COUNT ELSE n

\* worker.py:108-121 -> pipeline.py:119-369, seen from the worker: the
\* pipeline raises while trimming (120) or transcribing (149), raises
\* ValueError when the LLM gave no moments (231), or returns one path for
\* each moment that rendered, out of the truncated LLM list (work records
\* that the list was cut, 202-206).
Pipeline(p) ==
    /\ pc[p] = "pipeline"
    /\ \/ /\ work' = [work EXCEPT ![p] = @ \cup {"trim"}]
          /\ Fail(p, "trim")
          /\ UNCHANGED clips_count
       \/ /\ work' = [work EXCEPT ![p] = @ \cup {"trim", "transcribe"}]
          /\ Fail(p, "transcribe")
          /\ UNCHANGED clips_count
       \/ /\ work' = [work EXCEPT ![p] = @ \cup {"trim", "transcribe", "llm"}]
          /\ Fail(p, "llm")
          /\ UNCHANGED clips_count
       \/ \E n \in 1..MaxLLMMoments :
            \E k \in 0..Truncate(n) :
               /\ work' = [work EXCEPT ![p] =
                             @ \cup {"trim", "transcribe", "llm", "render"}
                               \cup (IF n > MAX_CLIPS_COUNT
                                       THEN {"truncate"} ELSE {})]
               /\ clips_count' = [clips_count EXCEPT ![p] = k]
               /\ pc' = [pc EXCEPT ![p] = "charge"]
               /\ UNCHANGED <<result, failedAt>>
    /\ UNCHANGED <<walletVars, seen, rd, addVars, mergeVars, renderVars,
                   selectVars, scoreVars>>

NoUser == -1

\* worker.py:134-143: charge_coins returned False
Refused(p) ==
    /\ pc' = [pc EXCEPT ![p] = "done"]
    /\ result' = [result EXCEPT ![p] = "no_coins"]
    /\ failedAt' = [failedAt EXCEPT ![p] = "charge"]

\* Variant: a charge call that raises is logged and the run goes on to
\* deliver its clips.
ChargeRead_best_effort(p) ==
    /\ pc[p] = "charge"
    /\ LET amount == calculate_cost(clips_count[p])
           loaded == IF userExists THEN balance ELSE START_BALANCE_COINS
       IN  \/ IF loaded < amount
                THEN Refused(p) /\ UNCHANGED rd
                ELSE /\ rd' = [rd EXCEPT ![p] =
                                  IF userExists THEN balance ELSE NoUser]
                     /\ pc' = [pc EXCEPT ![p] = "commit"]
                     /\ UNCHANGED <<result, failedAt>>
           \/ /\ pc' = [pc EXCEPT ![p] = "upload"]
              /\ failedAt' = [failedAt EXCEPT ![p] = "ledger"]
              /\ UNCHANGED <<result, rd>>
    /\ UNCHANGED <<walletVars, seen, work, clips_count, addVars, mergeVars,
                   renderVars, selectVars, scoreVars>>

\* Variant: the charge session does not compare the balance with the
\* amount.
ChargeRead_unchecked(p) ==
    /\ pc[p] = "charge"
    /\ \/ /\ rd' = [rd EXCEPT ![p] = IF userExists THEN balance ELSE NoUser]
          /\ pc' = [pc EXCEPT ![p] = "commit"]
          /\ UNCHANGED <<result, failedAt>>
       \/ Fail(p, "ledger") /\ UNCHANGED rd
    /\ UNCHANGED <<walletVars, seen, work, clips_count, addVars, mergeVars,
                   renderVars, selectVars, scoreVars>>

\* worker.py:121-132 -> wallet.py:117-134: the charge session loads the
\* user and compares the loaded balance with the amount; or the session
\* raises (the database cannot be reached), which the task's except clause
\* catches (worker.py:179-189).
ChargeRead(p) ==
    /\ pc[p] = "charge"
    /\ LET amount == calculate_cost(clips_count[p])
           loaded == IF userExists THEN balance ELSE START_BALANCE_COINS
       IN  \/ IF loaded < amount
                THEN Refused(p) /\ UNCHANGED rd
                ELSE /\ rd' = [rd EXCEPT ![p] =
                                  IF userExists THEN balance ELSE NoUser]
                     /\ pc' = [pc EXCEPT ![p] = "commit"]
                     /\ UNCHANGED <<result, failedAt>>
           \/ Fail(p, "ledger") /\ UNCHANGED rd
    /\ UNCHANGED <<walletVars, seen, work, clips_count, addVars, mergeVars,
                   renderVars, selectVars, scoreVars>>

\* wallet.py:125-145: user.balance = <loaded balance> - amount, the CHARGE
\* transaction with amount = -amount, commit.  The session that saw no user
\* inserts one (125-130) and fails on the unique telegram_id when the row
\* exists by now; the exception is caught by the task's try.  So is a
\* commit that raises: the session is rolled back and nothing is stored.
ChargeCommit(p) ==
    /\ pc[p] = "commit"
    /\ LET amount == calculate_cost(clips_count[p])
       IN  \/ IF rd[p] = NoUser /\ userExists
                THEN Fail(p, "charge") /\ UNCHANGED walletVars
                ELSE /\ userExists' = TRUE
                     /\ balance' =
                            (IF rd[p] = NoUser THEN START_BALANCE_COINS
                                               ELSE rd[p]) - amount
                     /\ txns' =
                            Append(txns, Transaction("charge", -amount, p))
                     /\ pc' = [pc EXCEPT ![p] = "upload"]
                     /\ UNCHANGED <<result, failedAt>>
           \/ Fail(p, "ledger") /\ UNCHANGED walletVars
    /\ UNCHANGED <<seen, work, clips_count, rd, addVars, mergeVars,
                   renderVars, selectVars, scoreVars>>

\* worker.py:149-177: upload every clip, then return status "success";
\* an upload that raises ends the run in the except clause.
Upload(p) ==
    /\ pc[p] = "upload"
    /\ \/ /\ pc' = [pc EXCEPT ![p] = "done"]
          /\ result' = [result EXCEPT ![p] = "success"]
          /\ UNCHANGED failedAt
       \/ /\ clips_count[p] > 0
          /\ Fail(p, "upload")
    /\ UNCHANGED <<walletVars, seen, work, clips_count, rd, addVars,
                   mergeVars, renderVars, selectVars, scoreVars>>

\* routers/billing/router.py:77-87 -> wallet.py:69-73: the session of
\* add_coins loads the user.
AddRead ==
    /\ apc = "start"
    /\ \E a \in PurchaseAmounts : aamt' = a
    /\ ard' = IF userExists THEN balance ELSE NoUser
    /\ apc' = "commit"
    /\ UNCHANGED <<walletVars, taskVars, mergeVars, renderVars, selectVars,
                   scoreVars>>

\* wallet.py:72-98: balance = <loaded balance> + amount (or a new row with
\* start_balance + amount), the PURCHASE transaction, commit.
AddCommit ==
    /\ apc = "commit"
    /\ apc' = "done"
    /\ IF ard = NoUser /\ userExists
         THEN UNCHANGED walletVars
         ELSE /\ userExists' = TRUE
              /\ balance' = (IF ard = NoUser THEN START_BALANCE_COINS
                                             ELSE ard) + aamt
              /\ txns' = Append(txns, Transaction("purchase", aamt, "api"))
    /\ UNCHANGED <<ard, aamt, taskVars, mergeVars, renderVars, selectVars,
                   scoreVars>>

NextWorker ==
    \/ \E p \in Tasks : CheckBalance(p)
    \/ \E p \in Tasks : CreateUser(p)
    \/ \E p \in Tasks : Download(p)
    \/ \E p \in Tasks : Pipeline(p)
    \/ \E p \in Tasks : ChargeRead(p)
    \/ \E p \in Tasks : ChargeCommit(p)
    \/ \E p \in Tasks : Upload(p)
    \/ AddRead
    \/ AddCommit

Spec == InitWorker /\ [][NextWorker]_vars

(***************************************************************************)
(* Properties of the worker and the wallet                                 *)
(***************************************************************************)

\* The balance a session would load now
EffBalance == IF userExists THEN balance ELSE START_BALANCE_COINS

TxnsBy(p) == SelectSeq(txns, LAMBDA t : t.by = p)

HasTxn(p, type, amount) ==
    \E n \in 1..Len(txns) : txns[n] = Transaction(type, amount, p)

NoRefunds == \A n \in 1..Len(txns) : txns[n].type # "refund"

\* The run raised before rendering completed
PreRender == {"download", "trim", "transcribe", "llm"}
AbortedBeforeRender(p) == result[p] = "error" /\ failedAt[p] \in PreRender

\* The run was turned away by the up-front balance check
RejectedAtCheck(p) ==
    pc[p] = "done" /\ result[p] = "no_coins" /\ failedAt[p] = "none"

\* No other request has touched the wallet while run p is in flight
Alone(p) == apc = "start" /\ \A q \in Tasks \ {p} : pc[q] = "check"

\* C1 as the spec states it: a successful run has charged
\* actualCost = renderedClipCount * costPerClip and has refunded
\* reservedCost - actualCost to the user.
C1_AsStated ==
    \A p \in Tasks :
        (result[p] = "success" /\ clips_count[p] < MAX_CLIPS_COUNT) =>
            /\ HasTxn(p, "charge", -(clips_count[p] * COINS_PER_CLIP))
            /\ HasTxn(p, "refund",
                      max_cost - clips_count[p] * COINS_PER_CLIP)

\* C1 (amended): when rendering finished with renderedClipCount <=
\* maxClipsCount and the wallet accepts the charge, the settlement step
\* records exactly one CHARGE of actualCost = renderedClipCount *
\* costPerClip for the run and stores the balance its session loaded minus
\* actualCost; nothing was reserved and no refund is ever recorded.
C1_Settlement ==
    [][\A p \in Tasks :
          (pc[p] = "commit" /\ pc'[p] = "upload") =>
              /\ clips_count[p] <= MAX_CLIPS_COUNT
              /\ balance' = rd[p] - clips_count[p] * COINS_PER_CLIP
              /\ TxnsBy(p)' = << Transaction("charge",
                                   -(clips_count[p] * COINS_PER_CLIP), p) >>
              /\ NoRefunds']_vars

\* Scenario D's shape: a run that rendered 2 clips ended with success.
C1_Witness ==
    \E p \in Tasks :
        /\ result[p] = "success" /\ clips_count[p] = 2
        /\ HasTxn(p, "charge", -2)

\* C2 as the spec states it: a run that raised before rendering completed
\* ends with an error result and the full reservation was refunded.
C2_AsStated ==
    \A p \in Tasks :
        AbortedBeforeRender(p) => HasTxn(p, "refund", max_cost)

\* C2 (amended): a run that raises before rendering completes ends with
\* status "error"; it has reserved nothing, so it records neither a refund
\* nor a charge, and the failing step leaves the wallet as it was.
C2_AbortLeavesWallet ==
    [][\A p \in Tasks :
          (pc[p] \in {"download", "pipeline"} /\ pc'[p] = "done") =>
              /\ result'[p] = "error"
              /\ failedAt'[p] \in PreRender
              /\ TxnsBy(p)' = << >>
              /\ UNCHANGED walletVars]_vars

\* Scenario E: the transcription raised.
C2_Witness ==
    \E p \in Tasks :
        /\ result[p] = "error" /\ failedAt[p] = "transcribe"
        /\ seen[p] >= max_cost /\ TxnsBy(p) = << >>

\* C3: a run that starts with a balance below maxClipsCount * costPerClip
\* is turned away with status no_coins by the check itself, having started
\* no download, transcription or transcoding, and the wallet is unchanged.
C3_InsufficientRejected ==
    [][\A p \in Tasks :
          (pc[p] = "check" /\ EffBalance < max_cost /\ pc'[p] # pc[p]) =>
              /\ RejectedAtCheck(p)'
              /\ work'[p] = {}
              /\ TxnsBy(p)' = << >>
              /\ UNCHANGED walletVars]_vars

C3_Witness ==
    \E p \in Tasks :
        RejectedAtCheck(p) /\ seen[p] = max_cost - 1 /\ work[p] = {}

\* C4 as the spec states it: between the successful reserve and the settle
\* or abort, the balance is lower by reservedCost than before the reserve
\* (stated for a run that has the wallet to itself).
C4_AsStated ==
    \A p \in Tasks :
        (pc[p] \in {"download", "pipeline", "charge", "commit"} /\ Alone(p))
            => EffBalance = seen[p] - max_cost

\* C4 (amended): the up-front step only compares reservedCost with the
\* balance; it takes nothing out.  From the check up to the charge no step
\* of the run changes the balance or records a transaction, so a run that
\* has the wallet to itself still sees its full balance while it works.
C4_CheckTakesNothing ==
    [][\A p \in Tasks :
          /\ (pc[p] \in {"check", "create", "download", "pipeline", "charge"}
              /\ pc'[p] # pc[p])
                => (EffBalance' = EffBalance /\ txns' = txns)
          /\ (pc'[p] \in {"download", "pipeline", "charge", "commit"}
              /\ Alone(p)')
                => EffBalance' = seen'[p]]_vars

C4_Witness ==
    \E p \in Tasks :
        /\ pc[p] = "commit" /\ Alone(p)
        /\ seen[p] >= max_cost /\ EffBalance = seen[p]

\* C18: every run of process_video_task ends in one of three outcomes:
\* insufficient funds, the generic error status, or success with at most
\* maxClipsCount clips; no run ends otherwise, and no exception leaves
\* the task.
C18_ThreeOutcomes ==
    \A p \in Tasks :
        pc[p] = "done" =>
            /\ result[p] \in {"no_coins", "error", "success"}
            /\ result[p] = "success" => clips_count[p] <= MAX_CLIPS_COUNT

\* The charge call of run p raised after the pipeline had rendered clips
ChargeCallFailed(p) ==
    pc[p] = "done" /\ failedAt[p] = "ledger" /\ clips_count[p] > 0

C27_CostWithinCheck ==
    \A p \in Tasks :
        /\ clips_count[p] <= MAX_CLIPS_COUNT
        /\ "render" \in work[p] =>
              /\ clips_count[p] * COINS_PER_CLIP <= max_cost
              /\ max_cost <= seen[p]
        /\ \A n \in 1..Len(txns) :
              txns[n].by = p =>
                  /\ -txns[n].amount = clips_count[p] * COINS_PER_CLIP
                  /\ -txns[n].amount <= MAX_CLIPS_COUNT * COINS_PER_CLIP

\* The LLM gave more than MAX_CLIPS_COUNT moments, the list was cut, all
\* MAX_CLIPS_COUNT moments rendered and the run was charged the worst-case
\* cost.
C27_Witness ==
    \E p \in Tasks :
        /\ "truncate" \in work[p] /\ clips_count[p] = MAX_CLIPS_COUNT
        /\ result[p] = "success"
        /\ HasTxn(p, "charge", -max_cost)

\* The run passed the up-front check, rendered clips and was then refused
\* by charge_coins
RefusedAfterRender(p) ==
    /\ seen[p] >= max_cost /\ "render" \in work[p] /\ clips_count[p] > 0
    /\ pc[p] = "done" /\ result[p] = "no_coins" /\ failedAt[p] = "charge"

\* C28: under every interleaving of two runs for one user and of other
\* requests on the wallet, a run that passed the up-front balance check
\* and rendered clips is never refused at the final charge.
C28_NeverRefusedAfterRender == \A p \in Tasks : ~RefusedAfterRender(p)

RECURSIVE SumAmounts(_)
SumAmounts(ts) ==
    IF ts = << >> THEN 0 ELSE Head(ts).amount + SumAmounts(Tail(ts))

\* C29: after any interleaving of get_balance, add_coins and charge_coins
\* calls for one user, the stored balance equals START_BALANCE_COINS plus
\* the sum of the amounts of all recorded transactions of the user.
C29_LedgerConsistent ==
    userExists => balance = START_BALANCE_COINS + SumAmounts(txns)

\* The balance the session of run p works with after loading the user
Loaded(p) == IF rd[p] = NoUser THEN START_BALANCE_COINS ELSE rd[p]

\* C30: the balance is never negative; charge_coins, called with an
\* amount >= 0, subtracts only when the balance it read is at least the
\* amount, and when the balance is insufficient it returns False, leaves
\* the balance as it is and records no transaction.
C30_NeverNegative ==
    [][/\ balance >= 0 /\ balance' >= 0
       /\ \A p \in Tasks :
             /\ (pc[p] = "commit" /\ pc'[p] = "upload") =>
                    /\ calculate_cost(clips_count[p]) >= 0
                    /\ Loaded(p) >= calculate_cost(clips_count[p])
                    /\ balance' = Loaded(p) - calculate_cost(clips_count[p])
             /\ (pc[p] = "charge" /\ result'[p] = "no_coins") =>
                    /\ EffBalance < calculate_cost(clips_count[p])
                    /\ UNCHANGED walletVars]_vars

\* A run was refused by charge_coins: the balance had dropped to 2 coins
\* while it rendered 3 clips, and the wallet holds no charge of the run.
C30_Witness ==
    \E p \in Tasks :
        /\ result[p] = "no_coins" /\ failedAt[p] = "charge"
        /\ clips_count[p] = 3 /\ balance = 2
        /\ TxnsBy(p) = << >>

(***************************************************************************)
(* ScoringService._find_continuous_speech_moments (scoring.py:108-232)     *)
(***************************************************************************)

\* Transcript segments: a first segment at 0, each next one after a gap.
\* Gaps sit on both sides of the 0.3 s, 0.5 s and 2.0 s thresholds, lengths
\* let a window stay short, pass 25 s, reach the 43 s limit, or be one
\* segment longer than the maximum.
Gaps == {0, 4, 20, 100}
Durations == {50, 200, 460}
Texts == {"and", "ok."}

\* Values of the min_duration the service is constructed with: 5 s (the
\* setting of Scenario A) and the configured 15 s.
MinDurations == {50, CLIP_MIN_DURATION_SECONDS}

\* scoring.py:167 prev_text.endswith((".", "!", "?", <4th suffix>)) on the
\* texts of the model.  The fourth suffix of the source is the three
\* characters U+00E2 U+20AC U+00A6 (an ellipsis whose UTF-8 bytes were
\* decoded as Windows-1252), so a text that ends with the ellipsis U+2026,
\* written "wait<U+2026>" here, matches none of the suffixes.
EndsWithStrong(text) == text \in {"ok.", "this works?"}

Segment(start, end, text) == [start |-> start, end |-> end, text |-> text]

\* Start of segment n when segment k follows its predecessor after gap[k]
\* and lasts dur[k]
RECURSIVE StartOf(_, _, _)
StartOf(gap, dur, n) ==
    IF n = 1 THEN gap[1]
    ELSE StartOf(gap, dur, n - 1) + dur[n - 1] + gap[n]

SegList(gap, dur, text) ==
    [n \in DOMAIN dur |->
        Segment(StartOf(gap, dur, n), StartOf(gap, dur, n) + dur[n], text[n])]

\* ScoringService.__init__ (scoring.py:14-20)
max_duration == CLIP_MAX_DURATION_SECONDS

\* scoring.py:131
max_pause == 20

\* Variant: the window stops at every sentence end.
should_stop_at_sentence_end(prev_seg, current_seg, clip_start) ==
    LET pause == current_seg.start - prev_seg.end
        current_clip_duration == current_seg.end - clip_start
    IN  \/ pause > max_pause
        \/ current_clip_duration >= max_duration - 20
        \/ EndsWithStrong(prev_seg.text)

\* Variant: the pause between the segments is not looked at.
should_stop_ignoring_pause(prev_seg, current_seg, clip_start) ==
    LET current_clip_duration == current_seg.end - clip_start
    IN  current_clip_duration >= max_duration - 20

\* scoring.py:143-181: should the window that began at clip_start stop
\* before current_seg
should_stop(prev_seg, current_seg, clip_start) ==
    LET pause == current_seg.start - prev_seg.end
        current_clip_duration == current_seg.end - clip_start
        prev_text == prev_seg.text
    IN  \/ pause > max_pause
        \/ current_clip_duration >= max_duration - 20
        \/ /\ prev_text # ""
           /\ EndsWithStrong(prev_text)
           /\ IF pause > 5 THEN TRUE
              ELSE IF current_clip_duration >= min_duration
                     THEN IF pause > 3 THEN TRUE
                          ELSE current_clip_duration >= 250
                     ELSE FALSE

\* Scenario A: [0, 5] "Did you know", [5.2, 9] "this works?"
ScenarioA ==
    <<Segment(0, 50, "Did you know"), Segment(52, 90, "this works?")>>

\* [0, 10] "wait<U+2026>", then after a pause of 1 s [11, 20] "and"
ScenarioEllipsis ==
    <<Segment(0, 100, "wait<U+2026>"), Segment(110, 200, "and")>>

InitMerge ==
    /\ \/ \E n \in 0..MaxSegs :
             \E gap \in [1..n -> Gaps], dur \in [1..n -> Durations],
                text \in [1..n -> Texts] :
                /\ n > 0 => gap[1] = 0
                /\ segments = SegList(gap, dur, text)
       \/ segments = ScenarioA
       \/ segments = ScenarioEllipsis
    /\ min_duration \in MinDurations
    /\ i = 1 /\ j = 1 /\ clip_segments = << >> /\ clips = << >>
    /\ mpc = "outer"
    /\ WorkerIdle /\ RenderIdle /\ SelectIdle /\ ScoreIdle

\* scoring.py:137-140: a window opens at segment i
MergeStart ==
    /\ mpc = "outer"
    /\ i <= Len(segments)
    /\ clip_segments' = <<i>>
    /\ j' = i + 1
    /\ mpc' = "inner"
    /\ UNCHANGED <<segments, min_duration, i, clips, walletVars, taskVars,
                   addVars, renderVars, selectVars, scoreVars>>

\* scoring.py:142-185: the inner loop takes segment j into the window
MergeExtend ==
    /\ mpc = "inner"
    /\ j <= Len(segments)
    /\ ~should_stop(segments[j - 1], segments[j], segments[i].start)
    /\ clip_segments' = Append(clip_segments, j)
    /\ j' = j + 1
    /\ UNCHANGED <<segments, min_duration, i, clips, mpc, walletVars,
                   taskVars, addVars, renderVars, selectVars, scoreVars>>

\* scoring.py:198-228: the moment built from the window (the indices of the
\* folded segments are kept in segs)
Moment(clip_start, clip_end, segs) ==
    [start |-> clip_start, end |-> clip_end, segs |-> segs]

\* Variant: the next window starts at the very next segment.
NextI_every_segment(ii, jj) == ii + 1

\* scoring.py:230
NextI(ii, jj) == IF jj > ii THEN jj ELSE ii + 1

\* Variant: a window is emitted only when it is longer than the minimum.
MergeClose_strictly_longer ==
    /\ mpc = "inner"
    /\ IF j > Len(segments) THEN TRUE
       ELSE should_stop(segments[j - 1], segments[j], segments[i].start)
    /\ LET clip_start == segments[i].start
           clip_end == segments[clip_segments[Len(clip_segments)]].end
           clip_duration == clip_end - clip_start
       IN  clips' = IF clip_duration > min_duration
                      THEN Append(clips,
                                  Moment(clip_start, clip_end, clip_segments))
                      ELSE clips
    /\ i' = NextI(i, j)
    /\ mpc' = "outer"
    /\ UNCHANGED <<segments, min_duration, j, clip_segments, walletVars,
                   taskVars, addVars, renderVars, selectVars, scoreVars>>

\* scoring.py:181-182, 187-230: the inner loop ends, the window is emitted
\* when it is long enough, and the outer loop resumes
MergeClose ==
    /\ mpc = "inner"
    /\ IF j > Len(segments) THEN TRUE
       ELSE should_stop(segments[j - 1], segments[j], segments[i].start)
    /\ LET clip_start == segments[i].start
           clip_end == segments[clip_segments[Len(clip_segments)]].end
           clip_duration == clip_end - clip_start
       IN  clips' = IF clip_duration >= min_duration
                      THEN Append(clips,
                                  Moment(clip_start, clip_end, clip_segments))
                      ELSE clips
    /\ i' = NextI(i, j)
    /\ mpc' = "outer"
    /\ UNCHANGED <<segments, min_duration, j, clip_segments, walletVars,
                   taskVars, addVars, renderVars, selectVars, scoreVars>>

\* scoring.py:137, 232: no segment is left, return clips
MergeReturn ==
    /\ mpc = "outer"
    /\ i > Len(segments)
    /\ mpc' = "done"
    /\ UNCHANGED <<segments, min_duration, i, j, clip_segments, clips,
                   walletVars, taskVars, addVars, renderVars, selectVars,
                   scoreVars>>

NextMerge == MergeStart \/ MergeExtend \/ MergeClose \/ MergeReturn

SpecMerge == InitMerge /\ [][NextMerge]_vars

(***************************************************************************)
(* Properties of the merge                                                 *)
(***************************************************************************)

Duration(m) == m.end - m.start

SegSet(m) == { m.segs[n] : n \in 1..Len(m.segs) }

\* The input is as the transcription delivers it: ascending,
\* non-overlapping, every segment with end > start.
OrderedInput ==
    /\ \A n \in 1..Len(segments) : segments[n].end > segments[n].start
    /\ \A n \in 1..Len(segments) - 1 :
          segments[n].end <= segments[n + 1].start

\* C8: every moment emitted by the merge satisfies
\* minClipDuration <= end - start <= maxClipDuration.
C8_DurationBounds ==
    OrderedInput =>
        \A n \in 1..Len(clips) :
            /\ min_duration <= Duration(clips[n])
            /\ Duration(clips[n]) <= max_duration

\* C9: the moments of one merge call ascend by start, no two overlap in
\* time, and every segment is folded into at most one moment: a segment
\* that a closed window consumed lies before the segment the next window
\* starts at.
C9_OnePass ==
    /\ \A a, b \in 1..Len(clips) :
          a < b => /\ clips[a].start < clips[b].start
                   /\ clips[a].end <= clips[b].start
                   /\ SegSet(clips[a]) \cap SegSet(clips[b]) = {}
    /\ \A a \in 1..Len(clips) : \A n \in SegSet(clips[a]) :
          /\ n < i \/ (mpc = "inner" /\ n < clip_segments[1])
          /\ clips[a].start <= segments[n].start
          /\ segments[n].end <= clips[a].end
    /\ mpc = "inner" =>
          /\ clip_segments = [n \in 1..Len(clip_segments) |-> i + n - 1]
          /\ j = i + Len(clip_segments)

\* Two moments came out of one pass, with a discarded window in between.
C9_Witness ==
    /\ mpc = "done" /\ Len(clips) = 2
    /\ \E n \in 1..Len(segments) :
          /\ n \notin SegSet(clips[1]) \cup SegSet(clips[2])
          /\ clips[1].end <= segments[n].start
          /\ segments[n].end <= clips[2].start

Gap(n) == segments[n + 1].start - segments[n].end

\* C10: no moment, and no window under construction, holds two consecutive
\* segments whose gap is greater than the pause threshold; a gap of 10 s
\* always separates the windows.
C10_NoLongGapInside ==
    /\ \A a \in 1..Len(clips) : \A n \in SegSet(clips[a]) :
          (n + 1) \in SegSet(clips[a]) =>
              Gap(n) <= max_pause /\ Gap(n) # 100
    /\ \A k \in 1..Len(clip_segments) - 1 :
          mpc = "inner" => Gap(clip_segments[k]) <= max_pause

\* Scenario B: two segments 10 s apart became two moments.
C10_Witness ==
    /\ mpc = "done" /\ Len(clips) = 2
    /\ \E n \in 1..Len(segments) - 1 :
          /\ Gap(n) = 100
          /\ n \in SegSet(clips[1]) /\ (n + 1) \in SegSet(clips[2])

\* The three conditions under which the window that began at clip_start
\* is to take current_seg, with prev_seg the last segment taken.  The
\* window is measured through the end of current_seg, and a thought
\* boundary is terminal punctuation at the end of prev_seg together with
\* a pause over 0.3 s, or with any pause once the window has reached the
\* minimum, or with a window that has reached 25 s.
GapAllows(prev_seg, current_seg) ==
    current_seg.start - prev_seg.end <= max_pause

DurationAllows(current_seg, clip_start) ==
    current_seg.end - clip_start < max_duration - 20

ThoughtBoundary(prev_seg, current_seg, clip_start) ==
    /\ EndsWithStrong(prev_seg.text)
    /\ \/ current_seg.start - prev_seg.end > 3
       \/ /\ current_seg.end - clip_start >= min_duration
          /\ current_seg.start - prev_seg.end > 0
       \/ current_seg.end - clip_start >= 250

MayExtend ==
    /\ mpc = "inner" /\ j <= Len(segments)
    /\ GapAllows(segments[j - 1], segments[j])
    /\ DurationAllows(segments[j], segments[i].start)
    /\ ~ThoughtBoundary(segments[j - 1], segments[j], segments[i].start)

WindowDuration == segments[j - 1].end - segments[i].start

\* C12: when the extension of a window stops, the window becomes a moment
\* if and only if its duration is at least the minimum; a shorter window
\* leaves the list of moments as it was; in both cases the next window
\* starts at segment j, the first one the closed window did not take.
C12_EmitIffLongEnough ==
    [][(mpc = "inner" /\ mpc' = "outer") =>
          /\ WindowDuration >= min_duration =>
                clips' = Append(clips, Moment(segments[i].start,
                                              segments[j - 1].end,
                                              clip_segments))
          /\ WindowDuration < min_duration => clips' = clips
          /\ i' = j
          /\ \A n \in 1..Len(segments) :
                (\E k \in 1..Len(clip_segments) : clip_segments[k] = n)
                    <=> (i <= n /\ n < j)]_vars

\* A window shorter than the minimum was dropped, and the next window,
\* opened at the first segment after it, was emitted.
C12_Witness ==
    /\ mpc = "done" /\ Len(clips) = 1 /\ Len(segments) >= 2
    /\ 1 \notin SegSet(clips[1])
    /\ 2 \in SegSet(clips[1])
    /\ segments[1].end - segments[1].start < min_duration

\* Terminal punctuation as the specification lists it: . ! ? and the
\* ellipsis
EndsWithTerminal(text) == text \in {"ok.", "this works?", "wait<U+2026>"}

\* C23: no moment produced by the merge contains two consecutive segments
\* where the earlier one ends with terminal punctuation and the pause
\* before the next one is greater than 0.3 s, whatever the duration of the
\* window.
C23_BoundaryAlwaysEnds ==
    \A a \in 1..Len(clips) : \A n \in SegSet(clips[a]) :
        (n + 1) \in SegSet(clips[a]) =>
            ~(EndsWithTerminal(segments[n].text) /\ Gap(n) > 3)

(***************************************************************************)
(* VideoPipeline.process_optimized_async from the LLM result to the        *)
(* returned clip list (pipeline.py:194-369)                                *)
(***************************************************************************)

\* Clip lengths the LLM may ask for, on both sides of min_duration - 5 s
\* and of max_duration.
RenderDurations == {99, 100, 450, 451}

LLMMoment(d) == [start |-> 0, end |-> d]

RECURSIVE MomentLists(_)
MomentLists(n) ==
    IF n = 0 THEN { << >> }
    ELSE UNION { { <<LLMMoment(d)>> \o rest : rest \in MomentLists(n - 1) } :
                 d \in RenderDurations }

\* Variant: no tolerance below the minimum duration.
DurationAccepted_strict(clip_duration) ==
    /\ clip_duration >= CLIP_MIN_DURATION_SECONDS
    /\ clip_duration <= CLIP_MAX_DURATION_SECONDS

\* pipeline.py:240-263: does process_single_clip go on to render the clip
DurationAccepted(clip_duration) ==
    IF clip_duration > CLIP_MAX_DURATION_SECONDS THEN FALSE
    ELSE IF clip_duration < CLIP_MIN_DURATION_SECONDS
           THEN clip_duration >= CLIP_MIN_DURATION_SECONDS - 50
           ELSE TRUE

\* Variant: the pool gets one worker thread for every moment.
max_workers_per_moment == Len(best_moments)

\* pipeline.py:317-320
max_workers ==
    IF Len(best_moments) < CLIP_PROCESSING_MAX_WORKERS
      THEN Len(best_moments) ELSE CLIP_PROCESSING_MAX_WORKERS

Indices == 1..Len(best_moments)

Running == { idx \in Indices : job[idx].st = "running" }

Future(st, out) == [st |-> st, out |-> out]

InitRender ==
    /\ llm_analysis \in UNION { MomentLists(n) : n \in 0..MaxMoments }
    /\ best_moments = << >> /\ job = << >> /\ transcoded = {}
    /\ clip_paths_dict = << >> /\ clip_paths = << >>
    /\ rpc = "llm"
    /\ WorkerIdle /\ MergeIdle /\ SelectIdle /\ ScoreIdle

\* Variant: without an LLM analysis the pipeline goes on with no moments.
BuildMoments_tolerant ==
    /\ rpc = "llm"
    /\ best_moments' = SubSeq(llm_analysis, 1, Truncate(Len(llm_analysis)))
    /\ job' = [idx \in 1..Truncate(Len(llm_analysis)) |->
                  Future("pending", "none")]
    /\ rpc' = "pool"
    /\ UNCHANGED <<llm_analysis, transcoded, clip_paths_dict, clip_paths,
                   walletVars, taskVars, addVars, mergeVars, selectVars,
                   scoreVars>>

\* Variant: the slice that cuts the list starts one moment too late.
BuildMoments_skipping_first ==
    /\ rpc = "llm"
    /\ IF llm_analysis = << >>
         THEN /\ rpc' = "raised"
              /\ UNCHANGED <<best_moments, job>>
         ELSE /\ best_moments' = SubSeq(llm_analysis, 2,
                                        Truncate(Len(llm_analysis)))
              /\ job' = [idx \in 1..Truncate(Len(llm_analysis)) - 1 |->
                            Future("pending", "none")]
              /\ rpc' = "pool"
    /\ UNCHANGED <<llm_analysis, transcoded, clip_paths_dict, clip_paths,
                   walletVars, taskVars, addVars, mergeVars, selectVars,
                   scoreVars>>

\* pipeline.py:194-234, 316-336: without moments the pipeline raises
\* ValueError; otherwise the list is cut to MAX_CLIPS_COUNT and one job per
\* moment is submitted, index 1 first.
BuildMoments ==
    /\ rpc = "llm"
    /\ IF llm_analysis = << >>
         THEN /\ rpc' = "raised"
              /\ UNCHANGED <<best_moments, job>>
         ELSE /\ best_moments' = SubSeq(llm_analysis, 1,
                                        Truncate(Len(llm_analysis)))
              /\ job' = [idx \in 1..Truncate(Len(llm_analysis)) |->
                            Future("pending", "none")]
              /\ rpc' = "pool"
    /\ UNCHANGED <<llm_analysis, transcoded, clip_paths_dict, clip_paths,
                   walletVars, taskVars, addVars, mergeVars, selectVars,
                   scoreVars>>

\* pipeline.py:236-292: a free worker thread takes the oldest queued job.
\* process_single_clip checks the duration: a rejected moment returns
\* (None, None) at once, an accepted one calls create_optimized_clip.
JobStart(idx) ==
    /\ rpc = "pool"
    /\ idx \in Indices
    /\ job[idx].st = "pending"
    /\ \A k \in Indices : k < idx => job[k].st # "pending"
    /\ Cardinality(Running) < max_workers
    /\ IF DurationAccepted(best_moments[idx].end - best_moments[idx].start)
         THEN /\ job' = [job EXCEPT ![idx] = Future("running", "none")]
              /\ transcoded' = transcoded \cup {idx}
         ELSE /\ job' = [job EXCEPT ![idx] = Future("finished", "invalid")]
              /\ transcoded' = transcoded
    /\ UNCHANGED <<llm_analysis, best_moments, clip_paths_dict, clip_paths,
                   rpc, walletVars, taskVars, addVars, mergeVars, selectVars,
                   scoreVars>>

\* Variant: an exception of create_optimized_clip is not caught at the job
\* boundary and ends the pool.
JobFinish_propagating(idx) ==
    /\ rpc = "pool"
    /\ idx \in Indices
    /\ job[idx].st = "running"
    /\ \E out \in {"ok", "failed", "exception"} :
          /\ job' = [job EXCEPT ![idx] = Future("finished", out)]
          /\ rpc' = IF out = "exception" THEN "raised" ELSE rpc
    /\ UNCHANGED <<llm_analysis, best_moments, transcoded, clip_paths_dict,
                   clip_paths, walletVars, taskVars, addVars, mergeVars,
                   selectVars, scoreVars>>

\* pipeline.py:283-314: create_optimized_clip returns True with the file
\* written ("ok"), returns False or leaves no file ("failed"), or raises
\* ("exception"); only the first returns (idx, path), the others
\* (None, None).
JobFinish(idx) ==
    /\ rpc = "pool"
    /\ idx \in Indices
    /\ job[idx].st = "running"
    /\ \E out \in {"ok", "failed", "exception"} :
          job' = [job EXCEPT ![idx] = Future("finished", out)]
    /\ UNCHANGED <<llm_analysis, best_moments, transcoded, clip_paths_dict,
                   clip_paths, rpc, walletVars, taskVars, addVars, mergeVars,
                   selectVars, scoreVars>>

\* pipeline.py:338-356: as_completed hands over a finished future; a
\* future that holds (idx, path) is entered into clip_paths_dict.  The path
\* final_clip_<idx>.mp4 is written as idx.
Collect(idx) ==
    /\ rpc = "pool"
    /\ idx \in Indices
    /\ job[idx].st = "finished"
    /\ job' = [job EXCEPT ![idx].st = "collected"]
    /\ clip_paths_dict' = IF job[idx].out = "ok"
                            THEN Append(clip_paths_dict, idx)
                            ELSE clip_paths_dict
    /\ UNCHANGED <<llm_analysis, best_moments, transcoded, clip_paths, rpc,
                   walletVars, taskVars, addVars, mergeVars, selectVars,
                   scoreVars>>

\* Variant: the paths are returned in the order the jobs completed.
SortedPaths_completion_order(d) == d

\* pipeline.py:359
SortedPaths(d) == SortSeq(d, LAMBDA a, b : a < b)

\* Variant: the pipeline returns as soon as no job is waiting for a thread.
RenderReturn_early ==
    /\ rpc = "pool"
    /\ \A idx \in Indices : job[idx].st # "pending"
    /\ clip_paths' = SortedPaths(clip_paths_dict)
    /\ rpc' = "done"
    /\ UNCHANGED <<llm_analysis, best_moments, job, transcoded,
                   clip_paths_dict, walletVars, taskVars, addVars, mergeVars,
                   selectVars, scoreVars>>

\* pipeline.py:338, 359-369: every future was handed over, the pool is
\* closed and the paths are returned by ascending clip index.
RenderReturn ==
    /\ rpc = "pool"
    /\ \A idx \in Indices : job[idx].st = "collected"
    /\ clip_paths' = SortedPaths(clip_paths_dict)
    /\ rpc' = "done"
    /\ UNCHANGED <<llm_analysis, best_moments, job, transcoded,
                   clip_paths_dict, walletVars, taskVars, addVars, mergeVars,
                   selectVars, scoreVars>>

NextRender ==
    \/ BuildMoments
    \/ \E idx \in 1..MaxMoments + 1 : JobStart(idx)
    \/ \E idx \in 1..MaxMoments + 1 : JobFinish(idx)
    \/ \E idx \in 1..MaxMoments + 1 : Collect(idx)
    \/ RenderReturn

SpecRender == InitRender /\ [][NextRender]_vars

\* Clip lengths for the runs with scheduling: one that process_single_clip
\* rejects and one that it hands to create_optimized_clip.
FairDurations == {99, 450}

InitRenderFair ==
    /\ \E n \in 0..MaxMoments :
          llm_analysis \in [1..n -> { LLMMoment(d) : d \in FairDurations }]
    /\ best_moments = << >> /\ job = << >> /\ transcoded = {}
    /\ clip_paths_dict = << >> /\ clip_paths = << >>
    /\ rpc = "llm"
    /\ WorkerIdle /\ MergeIdle /\ SelectIdle /\ ScoreIdle

\* The render pool with its scheduling: the pipeline goes on after the LLM
\* call, a free worker thread takes the oldest queued job, every call of
\* create_optimized_clip returns or raises, as_completed hands over every
\* finished future, and the with block ends when all were handed over.
SpecRenderFair ==
    /\ InitRenderFair /\ [][NextRender]_vars
    /\ WF_vars(BuildMoments)
    /\ \A idx \in 1..MaxMoments + 1 :
          /\ WF_vars(JobStart(idx))
          /\ WF_vars(JobFinish(idx))
          /\ WF_vars(Collect(idx))
    /\ WF_vars(RenderReturn)

(***************************************************************************)
(* Properties of the render pool                                           *)
(***************************************************************************)

PathSet(paths) == { paths[n] : n \in 1..Len(paths) }

Rendered == { idx \in Indices : job[idx].out = "ok" }

MomentDuration(idx) == best_moments[idx].end - best_moments[idx].start

\* C5: a job whose transcode fails or raises becomes a skipped result of
\* that job alone.  Nothing raised by a job leaves the pool (the pipeline
\* raises only when the LLM gave no moments), a failed job never removes
\* or blocks a sibling, and when render returns every job has run to its
\* end and every sibling that succeeded is in the returned list.
C5_FailureIsolated ==
    /\ rpc = "raised" => llm_analysis = << >>
    /\ rpc \in {"pool", "done"} =>
          /\ DOMAIN job = Indices
          /\ PathSet(clip_paths_dict) \subseteq Rendered
          /\ \A idx \in Indices :
                (job[idx].st = "collected" /\ job[idx].out = "ok")
                    => idx \in PathSet(clip_paths_dict)
    /\ rpc = "done" =>
          /\ \A idx \in Indices : job[idx].st = "collected"
          /\ PathSet(clip_paths) = Rendered

\* Render returned the clips of the jobs that succeeded although one
\* sibling raised and another returned failure.
C5_Witness ==
    /\ rpc = "done"
    /\ \E a, b, c \in Indices :
          /\ job[a].out = "exception" /\ job[b].out = "failed"
          /\ job[c].out = "ok" /\ a < c
          /\ c \in PathSet(clip_paths)

IsAscending(paths) ==
    \A a, b \in 1..Len(paths) : a < b => paths[a] < paths[b]

\* C6: whatever the order in which the jobs complete, the returned list
\* holds exactly the rendered clips, by ascending selection index.
C6_SelectionOrder ==
    rpc = "done" =>
        /\ IsAscending(clip_paths)
        /\ PathSet(clip_paths) = Rendered
        /\ Len(clip_paths) = Cardinality(Rendered)

\* The jobs completed in descending index order.
C6_Witness ==
    /\ rpc = "done"
    /\ clip_paths_dict = <<3, 2, 1>>
    /\ clip_paths = <<1, 2, 3>>

\* C7: a job calls the transcode for its moment if and only if
\* minDuration - 5 s <= end - start <= maxDuration; a moment outside the
\* range is skipped without a transcode call, and the pool goes on: the
\* pipeline does not fail and the other moments are rendered.
C7_DurationGate ==
    rpc \in {"pool", "done"} =>
        /\ \A idx \in Indices :
              job[idx].st # "pending" =>
                  /\ idx \in transcoded <=>
                        /\ CLIP_MIN_DURATION_SECONDS - 50
                              <= MomentDuration(idx)
                        /\ MomentDuration(idx) <= CLIP_MAX_DURATION_SECONDS
                  /\ idx \notin transcoded =>
                        /\ job[idx].out = "invalid"
                        /\ idx \notin PathSet(clip_paths_dict)
        /\ transcoded \subseteq Indices
        /\ rpc = "done" => PathSet(clip_paths) = Rendered

\* Moments of 9.9 s and 45.1 s were skipped, those of 10 s and 45 s, given
\* after them, were rendered.
C7_Witness ==
    /\ rpc = "done"
    /\ \E a, b, c, d \in Indices :
          /\ MomentDuration(a) = 99 /\ job[a].out = "invalid"
          /\ MomentDuration(b) = 451 /\ job[b].out = "invalid"
          /\ MomentDuration(c) = 100 /\ a < c /\ c \in PathSet(clip_paths)
          /\ MomentDuration(d) = 450 /\ b < d /\ d \in PathSet(clip_paths)
          /\ transcoded = {c, d}

\* The LLM collaborator gave nothing: analyze_transcription returned None
\* (it is disabled, it has no client, or its call raised:
\* llm_analysis.py:61-70, 154-159) or an analysis without moments.
NoAnalysis == llm_analysis = << >>

\* C20 as stated: when the LLM collaborator is disabled or its call fails,
\* the request is not aborted; moments are still selected and rendered.
C20_AsStated == NoAnalysis => rpc # "raised"

\* C20 (amended): the pipeline cannot do without the LLM analysis: when
\* the collaborator is disabled, fails or returns no moments, the pipeline
\* raises before any moment is selected and before any clip is rendered,
\* and returns no clip list.
C20_AnalysisIsRequired ==
    (NoAnalysis /\ rpc # "llm") =>
        /\ rpc = "raised"
        /\ best_moments = << >> /\ job = << >>
        /\ transcoded = {} /\ clip_paths = << >>

C20_Witness == NoAnalysis /\ rpc = "raised" /\ transcoded = {}

\* What a DiverseSelector call of this run returned
SelectorOutput == { sel_clips[selected[k]] : k \in 1..Len(selected) }

\* C21 as stated: when the render pool works, the merge, the scoring and
\* the diverse selection of this run have happened before it, and every
\* moment handed to the pool is an element of the selection's output.
C21_AsStated ==
    rpc \in {"pool", "done"} =>
        /\ mpc = "done" /\ scored # << >> /\ selpc = "done"
        /\ \A n \in 1..Len(best_moments) : best_moments[n] \in SelectorOutput

\* C21 (amended): a pipeline run goes from the LLM analysis to the moment
\* list, to the render pool, to the returned clip list, in this order; the
\* merge, the scoring and the diverse selection of ScoringService are no
\* stage of the run; every moment handed to the pool is one of the first
\* MAX_CLIPS_COUNT moments of the LLM analysis of that run, in the order
\* the LLM gave them.
C21_StagesInOrder ==
    /\ rpc = "llm" =>
          /\ best_moments = << >> /\ job = << >> /\ transcoded = {}
          /\ clip_paths_dict = << >> /\ clip_paths = << >>
    /\ rpc \in {"pool", "done"} =>
          /\ Len(best_moments) = Truncate(Len(llm_analysis))
          /\ \A n \in 1..Len(best_moments) :
                best_moments[n] = llm_analysis[n]
    /\ rpc = "pool" => clip_paths = << >>
    /\ rpc = "done" => \A idx \in Indices : job[idx].st = "collected"
    /\ mpc = "idle" /\ scored = << >> /\ selpc = "idle"

\* The pool rendered the second of two LLM moments of different lengths,
\* with no selection having run.
C21_Witness ==
    /\ rpc = "done" /\ Len(llm_analysis) = 2
    /\ best_moments = llm_analysis
    /\ best_moments[1] # best_moments[2]
    /\ clip_paths = <<2>>
    /\ selpc = "idle" /\ SelectorOutput = {}

\* C22: at every point during render the number of render jobs that are
\* executing is at most min(len(moments), maxRenderWorkers); a further job
\* waits until a worker thread is free.
C22_PoolBound ==
    rpc \in {"pool", "done"} =>
        /\ Cardinality(Running) <= Len(best_moments)
        /\ Cardinality(Running) <= CLIP_PROCESSING_MAX_WORKERS
        /\ \A idx \in Running : idx \in transcoded

\* Four moments that all pass the duration check: three are being
\* transcoded and the fourth is waiting.
C22_Witness ==
    /\ rpc = "pool" /\ Len(best_moments) = CLIP_PROCESSING_MAX_WORKERS + 1
    /\ Cardinality(Running) = CLIP_PROCESSING_MAX_WORKERS
    /\ \E idx \in Indices :
          /\ job[idx].st = "pending"
          /\ DurationAccepted(MomentDuration(idx))

\* Occurrences of idx in the returned list
Occurrences(paths, idx) ==
    Cardinality({ n \in 1..Len(paths) : paths[n] = idx })

\* C26: provided every transcode call returns or raises, render returns;
\* in the state where it returns no submitted job is pending or running,
\* and each job has contributed exactly one outcome: one clip path when it
\* rendered, otherwise one skip and no path.
C26_RenderReturns ==
    /\ (rpc = "pool") ~> (rpc = "done")
    /\ [](rpc = "done" =>
            \A idx \in Indices :
                /\ job[idx].st = "collected"
                /\ job[idx].out \in {"ok", "failed", "exception", "invalid"}
                /\ Occurrences(clip_paths, idx) =
                      IF job[idx].out = "ok" THEN 1 ELSE 0)

\* Render returned after four jobs: one skipped for its duration, one
\* whose transcode raised, one whose transcode failed, one rendered.
C26_Witness ==
    /\ rpc = "done" /\ Len(best_moments) = 4
    /\ { job[idx].out : idx \in Indices } =
          {"invalid", "exception", "failed", "ok"}
    /\ Len(clip_paths) = 1

(***************************************************************************)
(* ScoringService._select_diverse_clips (scoring.py:526-572)               *)
(***************************************************************************)

\* A text is the sequence of its whitespace-separated words.  The texts
\* give overlaps of 80 % (TA, TB), exactly 50 % (TC against TA), a text
\* contained in another (TD in TA) and a text without words.
TA == <<"a", "b", "c", "d", "e">>
TB == <<"A", "b", "c", "d", "x">>
TC == <<"a", "x">>
TD == <<"a">>
TE == << >>
SelTexts == {TA, TB, TC, TD, TE}

\* Starts 0 s, 30 s and 120 s: distances of 30 s, 90 s and exactly 120 s
SelStarts == {0, 300, 1200}

\* str.lower() on the words of the model
Lower(w) ==
    CASE w = "A" -> "a"
      [] w = "Did" -> "did"
      [] w = "I" -> "i"
      [] w = "I'm" -> "i'm"
      [] OTHER -> w

\* scoring.py:551, 554: set(text.lower().split())
Words(text) == { Lower(text[n]) : n \in 1..Len(text) }

Clip(text, start, score) == [text |-> text, start |-> start, score |-> score]

\* select_best_moments sorts by score, best first, before it selects
\* (scoring.py:89-97): the clip at position n has the n-th best score.
ClipList(text, start) ==
    [n \in DOMAIN text |-> Clip(text[n], start[n], Len(text) - n + 1)]

\* Scenario C: five scored clips, the top two share 4 of 5 words and start
\* 30 s apart, the others have nothing in common with any other.
ScenarioC ==
    <<Clip(TA, 0, 5), Clip(TB, 300, 4), Clip(<<"p", "q">>, 600, 3),
      Clip(<<"r", "s">>, 1200, 2), Clip(<<"t">>, 1800, 1)>>

Abs(x) == IF x < 0 THEN -x ELSE x

\* Variant: clips that start a minute or more apart are never compared.
TooSimilar_within_a_minute(candidate, selected_clip) ==
    LET candidate_words == Words(candidate.text)
        selected_words == Words(selected_clip.text)
        common_words == candidate_words \cap selected_words
        time_distance == Abs(candidate.start - selected_clip.start)
    IN  /\ 2 * Cardinality(common_words) >
              (IF Cardinality(candidate_words) > 1
                 THEN Cardinality(candidate_words) ELSE 1)
        /\ time_distance < 600

\* scoring.py:551-561: similarity = len(common_words) /
\* max(len(candidate_words), 1); similarity > 0.5 and time_distance < 120
TooSimilar(candidate, selected_clip) ==
    LET candidate_words == Words(candidate.text)
        selected_words == Words(selected_clip.text)
        common_words == candidate_words \cap selected_words
        time_distance == Abs(candidate.start - selected_clip.start)
    IN  /\ 2 * Cardinality(common_words) >
              (IF Cardinality(candidate_words) > 1
                 THEN Cardinality(candidate_words) ELSE 1)
        /\ time_distance < 1200

InitSelect ==
    /\ \/ /\ \E n \in 0..MaxCands :
               \E text \in [1..n -> SelTexts], start \in [1..n -> SelStarts] :
                  sel_clips = ClipList(text, start)
          /\ max_clips \in 0..MaxCands
       \/ sel_clips = ScenarioC /\ max_clips = 3
    /\ selected = << >> /\ cand = 0 /\ selpc = "start"
    /\ WorkerIdle /\ MergeIdle /\ RenderIdle /\ ScoreIdle

\* Variant: a short list goes through the diversity loop like a long one.
SelectStart_always_filtering ==
    /\ selpc = "start"
    /\ IF Len(sel_clips) = 0
         THEN /\ selected' = << >>
              /\ selpc' = "done"
              /\ cand' = cand
         ELSE /\ selected' = <<1>>
              /\ cand' = 2
              /\ selpc' = "loop"
    /\ UNCHANGED <<sel_clips, max_clips, walletVars, taskVars, addVars,
                   mergeVars, renderVars, scoreVars>>

\* scoring.py:541-544: a list of at most max_clips clips is returned as it
\* is; otherwise the first clip is selected
SelectStart ==
    /\ selpc = "start"
    /\ IF Len(sel_clips) <= max_clips
         THEN /\ selected' = [n \in 1..Len(sel_clips) |-> n]
              /\ selpc' = "done"
              /\ cand' = cand
         ELSE /\ selected' = <<1>>
              /\ cand' = 2
              /\ selpc' = "loop"
    /\ UNCHANGED <<sel_clips, max_clips, walletVars, taskVars, addVars,
                   mergeVars, renderVars, scoreVars>>

\* Variant: the loop does not look at the number of selected clips.
SelectStep_unbounded ==
    /\ selpc = "loop"
    /\ cand <= Len(sel_clips)
    /\ LET is_diverse ==
               \A k \in 1..Len(selected) :
                   ~TooSimilar(sel_clips[cand], sel_clips[selected[k]])
       IN  selected' = IF is_diverse THEN Append(selected, cand)
                                     ELSE selected
    /\ cand' = cand + 1
    /\ UNCHANGED <<sel_clips, max_clips, selpc, walletVars, taskVars,
                   addVars, mergeVars, renderVars, scoreVars>>

\* scoring.py:546-570: one pass of the loop over clips[1:]
SelectStep ==
    /\ selpc = "loop"
    /\ cand <= Len(sel_clips)
    /\ Len(selected) < max_clips
    /\ LET is_diverse ==
               \A k \in 1..Len(selected) :
                   ~TooSimilar(sel_clips[cand], sel_clips[selected[k]])
       IN  selected' = IF is_diverse THEN Append(selected, cand)
                                     ELSE selected
    /\ cand' = cand + 1
    /\ UNCHANGED <<sel_clips, max_clips, selpc, walletVars, taskVars,
                   addVars, mergeVars, renderVars, scoreVars>>

\* scoring.py:546-548, 572: the clips are exhausted or max_clips clips are
\* selected; return selected
SelectReturn ==
    /\ selpc = "loop"
    /\ cand > Len(sel_clips) \/ Len(selected) >= max_clips
    /\ selpc' = "done"
    /\ UNCHANGED <<sel_clips, max_clips, selected, cand, walletVars,
                   taskVars, addVars, mergeVars, renderVars, scoreVars>>

NextSelect == SelectStart \/ SelectStep \/ SelectReturn

SpecSelect == InitSelect /\ [][NextSelect]_vars

(***************************************************************************)
(* Properties of the diverse selection                                     *)
(***************************************************************************)

\* Share of the words of moment c that moment a has too is over 0.5, and
\* the two start less than 120 s apart.
Conflict(c, a) ==
    /\ 2 * Cardinality(Words(c.text) \cap Words(a.text)) >
          Cardinality(Words(c.text))
    /\ Abs(c.start - a.start) < 1200

\* No moment of the list conflicts with a moment accepted before it.
NoConflict(sel) ==
    \A a, b \in 1..Len(sel) :
        a < b => ~Conflict(sel_clips[sel[b]], sel_clips[sel[a]])

\* C13 as stated: for every input list and every k, no two moments of the
\* returned list have similarity over 0.5 and starts less than 120 s apart.
C13_AsStated == selpc = "done" => NoConflict(selected)

\* C13: when the input has more than k moments, no moment of the returned
\* list, and none selected so far, has similarity over 0.5 with a moment
\* accepted before it while starting less than 120 s from it.
C13_DiverseWhenLonger ==
    (selpc \in {"loop", "done"} /\ Len(sel_clips) > max_clips) =>
        NoConflict(selected)

\* A candidate that conflicts with the first moment was passed over and a
\* later one was accepted.
C13_Witness ==
    /\ selpc = "done" /\ Len(sel_clips) > max_clips /\ Len(selected) = 2
    /\ selected[2] = 3
    /\ Conflict(sel_clips[2], sel_clips[1])

\* C14: the returned list has at most k moments, for every input list and
\* every k >= 0.
C14_AtMostK == selpc = "done" => Len(selected) <= max_clips

\* The greedy selection among the first n moments of the input: the first
\* moment is accepted, a later one if and only if fewer than k are
\* accepted and it conflicts with none of them.
RECURSIVE Greedy(_)
Greedy(n) ==
    IF n = 0 THEN << >>
    ELSE IF n = 1 THEN <<1>>
    ELSE LET acc == Greedy(n - 1)
         IN  IF /\ Len(acc) < max_clips
                /\ \A k \in 1..Len(acc) :
                      ~Conflict(sel_clips[n], sel_clips[acc[k]])
               THEN Append(acc, n)
               ELSE acc

\* C15 as stated: for every input sorted by descending score the returned
\* list is the greedy selection in acceptance order.
C15_AsStated == selpc = "done" => selected = Greedy(Len(sel_clips))

\* C15: for an input sorted by descending score that has more than k
\* moments, the returned list is the greedy selection in acceptance order;
\* in Scenario C it is the first, third and fourth moment.
C15_GreedyWhenLonger ==
    /\ (selpc = "done" /\ Len(sel_clips) > max_clips) =>
          selected = Greedy(Len(sel_clips))
    /\ (selpc = "loop" /\ Len(sel_clips) > max_clips) =>
          selected = Greedy(cand - 1)
    /\ (selpc = "done" /\ sel_clips = ScenarioC /\ max_clips = 3) =>
          selected = <<1, 3, 4>>

\* Scenario C was run: three moments, the second-ranked one not among them.
C15_Witness ==
    /\ selpc = "done" /\ sel_clips = ScenarioC /\ max_clips = 3
    /\ Len(selected) = 3
    /\ \A k \in 1..Len(selected) : selected[k] # 2

\* The list the selection returns
Returned == [k \in 1..Len(selected) |-> sel_clips[selected[k]]]

\* C24: when the input has at most k moments, the selection returns the
\* input unchanged: the same moments in the same order, none removed, even
\* when two of them are similar and close in time.
C24_ShortInputUnchanged ==
    (selpc = "done" /\ Len(sel_clips) <= max_clips) => Returned = sel_clips

\* Two moments that conflict with each other came back, k being 3.
C24_Witness ==
    /\ selpc = "done" /\ Len(sel_clips) = 2 /\ max_clips = 3
    /\ Conflict(sel_clips[2], sel_clips[1])
    /\ Returned = sel_clips

(***************************************************************************)
(* ScoringService._calculate_score and the sub-scores (scoring.py:251-524, *)
(* 574-672), LLMAnalysisService.score_segment_with_llm                     *)
(* (llm_analysis.py:295-329).                                              *)
(*                                                                         *)
(* Sub-scores are integers in hundredths (10.0 = 1000), the weighted score *)
(* in thousandths; a quotient is cut to the unit.  A text is the sequence  *)
(* of its words.                                                           *)
(***************************************************************************)

\* ---- what the code reads off the words of the model ----

\* len(w)
CharLen(w) ==
    CASE w \in {"I", "7"} -> 1
      [] w \in {"is", "my"} -> 2
      [] w \in {"Did", "you", "but", "I'm"} -> 3
      [] w \in {"know", "this", "wow!"} -> 4
      [] w \in {"works?", "hmm..."} -> 6
      [] w = "however" -> 7

\* w.count("?"), w.count("!"), and the ellipsis count of scoring.py:501
Questions(w) == IF w = "works?" THEN 1 ELSE 0
Exclamations(w) == IF w = "wow!" THEN 1 ELSE 0
Ellipses(w) == IF w = "hmm..." THEN 1 ELSE 0

\* len(re.findall(r'\d+', w))
Numbers(w) == IF w = "7" THEN 1 ELSE 0

\* the contrast words (scoring.py:660) that are substrings of w.lower()
ContrastIn(w) ==
    CASE w = "but" -> {"but"}
      [] w = "however" -> {"however"}
      [] OTHER -> {}

\* the personal words (scoring.py:665) that are substrings of w.lower()
PersonalIn(w) ==
    CASE w \in {"Did", "this", "I", "is"} -> {"i"}
      [] w = "I'm" -> {"i", "i'm"}
      [] w = "my" -> {"my"}
      [] OTHER -> {}

\* scoring.py:638: first_words.startswith(("do you", "did you", ..., "what",
\* "why", "how")); "however" starts with "how"
QuestionOpener(text) ==
    /\ Len(text) >= 1
    /\ \/ text[1] = "however"
       \/ Len(text) >= 2 /\ Lower(text[1]) = "did" /\ text[2] = "you"

\* scoring.py:647-648: first_words.startswith(("here's", "this is", ...))
StrongStarter(text) ==
    Len(text) >= 2 /\ text[1] = "this" /\ text[2] = "is"

\* ---- arithmetic on sequences ----
RECURSIVE SumSeq(_)
SumSeq(q) == IF q = << >> THEN 0 ELSE Head(q) + SumSeq(Tail(q))

Min(a, b) == IF a < b THEN a ELSE b
Max(a, b) == IF a > b THEN a ELSE b

MaxOf(q) == CHOOSE x \in { q[n] : n \in 1..Len(q) } :
                \A n \in 1..Len(q) : q[n] <= x
MinOf(q) == CHOOSE x \in { q[n] : n \in 1..Len(q) } :
                \A n \in 1..Len(q) : q[n] >= x

Positive(x) == x > 0

\* scoring.py:512-524
count_repetitions(words) ==
    Cardinality({ n \in 1..Len(words) - 1 :
                    Lower(words[n]) = Lower(words[n + 1]) })

\* scoring.py:350-392
score_energy(text, duration) ==
    LET word_count == Len(text)
        char_count == SumSeq([n \in 1..Len(text) |-> CharLen(text[n])])
        word_density_score == Min((word_count * 2000) \div duration, 1000)
        char_density_score == Min((char_count * 500) \div duration, 1000)
        short_words == Cardinality({ n \in 1..Len(text) :
                                       CharLen(text[n]) <= 4 })
        energy_bonus == IF 10 * short_words > 6 * Max(word_count, 1)
                          THEN 200 ELSE 0
        repetition_score == Min(count_repetitions(text) * 150, 500)
        total_score == (word_density_score * 4) \div 10
                       + (char_density_score * 3) \div 10
                       + energy_bonus
                       + (repetition_score * 3) \div 10
    IN  IF duration = 0 THEN 0 ELSE Min(total_score, 1000)

\* scoring.py:394-428: avg_variation / avg_duration is
\* sum |n * d - S| / (n * S) for the n durations d with sum S
score_tempo_variation(words_data) ==
    IF Len(words_data) < 5 THEN 500
    ELSE LET word_durations ==
                 SelectSeq([n \in 1..Len(words_data) |->
                               words_data[n].end - words_data[n].start],
                           Positive)
             n == Len(word_durations)
             S == SumSeq(word_durations)
             dev == SumSeq([k \in 1..n |-> Abs(n * word_durations[k] - S)])
         IN  IF n < 3 THEN 500
             ELSE Min((1500 * dev) \div (n * S), 1000)

\* scoring.py:430-460
score_pauses(words_data) ==
    IF Len(words_data) < 2 THEN 0
    ELSE LET pauses ==
                 SelectSeq([n \in 1..Len(words_data) - 1 |->
                               words_data[n + 1].start - words_data[n].end],
                           Positive)
             dramatic_pauses ==
                 Cardinality({ n \in 1..Len(pauses) : pauses[n] > 3 })
         IN  IF pauses = << >> THEN 0
             ELSE Min(dramatic_pauses * 150
                      + Min((MaxOf(pauses) - MinOf(pauses)) * 50, 500),
                      1000)

\* scoring.py:490-510
score_punctuation(text) ==
    LET questions == SumSeq([n \in 1..Len(text) |-> Questions(text[n])])
        exclamations ==
            SumSeq([n \in 1..Len(text) |-> Exclamations(text[n])])
        ellipsis == SumSeq([n \in 1..Len(text) |-> Ellipses(text[n])])
    IN  Min(questions * 250 + exclamations * 200 + ellipsis * 150
            + (IF exclamations > 2 \/ questions > 2 THEN 300 ELSE 0),
            1000)

\* scoring.py:462-488: words_per_minute = 600 * words / duration with the
\* duration in tenths of a second
score_speech_pace(text, duration) ==
    LET words == Len(text)
        deviation_times_duration == Abs(600 * words - 160 * duration)
    IN  IF 120 * duration <= 600 * words /\ 600 * words <= 200 * duration
          THEN 1000 - (25 * deviation_times_duration) \div duration
          ELSE Max(0, 1000 - (5 * deviation_times_duration) \div duration)

\* scoring.py:574-607: position_ratio = start_time / total_duration
score_structure(start_time, duration_total) ==
    IF duration_total <= 0 THEN 500
    ELSE LET score ==
                 IF 10 * start_time <= duration_total
                   THEN 1000 - (5000 * start_time) \div duration_total
                 ELSE IF 10 * start_time >= 9 * duration_total
                   THEN 500 + (5000 * start_time - 4500 * duration_total)
                                  \div duration_total
                 ELSE 500
         IN  Min(score, 1000)

\* scoring.py:609-672
score_hook_patterns(text) ==
    LET question_count ==
            SumSeq([n \in 1..Len(text) |-> Questions(text[n])])
        numbers == SumSeq([n \in 1..Len(text) |-> Numbers(text[n])])
        contrast_count ==
            Cardinality(UNION { ContrastIn(text[n]) : n \in 1..Len(text) })
        personal_count ==
            Cardinality(UNION { PersonalIn(text[n]) : n \in 1..Len(text) })
        score ==
            (IF QuestionOpener(text) THEN 500 ELSE 0)
            + (IF question_count > 0 THEN Min(question_count * 150, 300)
                                     ELSE 0)
            + (IF StrongStarter(text) THEN 300 ELSE 0)
            + (IF numbers >= 2 THEN 200 ELSE IF numbers = 1 THEN 100 ELSE 0)
            + Min(contrast_count * 150, 300)
            + (IF personal_count >= 3 THEN 200
               ELSE IF personal_count >= 1 THEN 100 ELSE 0)
    IN  IF text = << >> THEN 0 ELSE Min(score, 1000)

\* A moment of the LLM analysis; the score is whatever number the reply
\* held (llm_analysis.py:280-285 hands the parsed JSON on as it is).
LLMScored(start, end, score) ==
    [start |-> start, end |-> end, score |-> score]

\* llm_analysis.py:319-329: the first moment that overlaps the segment
\* gives the score
RECURSIVE FirstOverlap(_, _)
FirstOverlap(seg, moments) ==
    IF moments = << >> THEN 0
    ELSE IF seg.start <= Head(moments).end /\ seg.end >= Head(moments).start
           THEN Min(Head(moments).score, 1000)
           ELSE FirstOverlap(seg, Tail(moments))

\* llm_analysis.py:295-329
score_segment_with_llm(seg, llm, llm_enabled) ==
    IF llm = None \/ ~llm_enabled THEN 0
    ELSE FirstOverlap(seg, llm.best_moments)

BreakdownKeys ==
    {"energy", "tempo", "pauses", "punctuation", "speech_pace", "structure",
     "hook", "llm"}

\* scoring.py:278-348: the returned score and what the call left in the
\* breakdown dictionary it was given empty (scoring.py:205)
calculate_score(seg, duration_total, llm, llm_enabled) ==
    LET text == seg.text
        duration == seg.end - seg.start
        words_data == seg.words
        start_time == seg.start
        energy_score == score_energy(text, duration)
        tempo_score == score_tempo_variation(words_data)
        pause_score == score_pauses(words_data)
        punctuation_score == score_punctuation(text)
        pace_score == score_speech_pace(text, duration)
        structure_score == score_structure(start_time, duration_total)
        hook_score == score_hook_patterns(text)
        llm_score == IF llm # None /\ llm_enabled
                       THEN score_segment_with_llm(seg, llm, llm_enabled)
                       ELSE 0
    IN  IF duration <= 0
          THEN [score |-> 0, breakdown |-> << >>]
          ELSE [score |->
                    energy_score * SCORING_WEIGHT_ENERGY
                    + tempo_score * SCORING_WEIGHT_TEMPO_VARIATION
                    + pause_score * SCORING_WEIGHT_PAUSES
                    + punctuation_score * SCORING_WEIGHT_PUNCTUATION
                    + pace_score * SCORING_WEIGHT_SPEECH_PACE
                    + structure_score * SCORING_WEIGHT_STRUCTURE
                    + hook_score * SCORING_WEIGHT_HOOK
                    + llm_score * SCORING_WEIGHT_LLM,
                breakdown |->
                    [energy |-> energy_score, tempo |-> tempo_score,
                     pauses |-> pause_score,
                     punctuation |-> punctuation_score,
                     speech_pace |-> pace_score,
                     structure |-> structure_score, hook |-> hook_score,
                     llm |-> llm_score]]

\* ---- the inputs of the model ----
ScoreTexts ==
    {<< >>,
     <<"Did", "you", "know", "this", "works?">>,
     <<"wow!", "wow!", "wow!">>,
     <<"however", "I'm", "7", "but", "my", "7", "I">>,
     <<"this", "is", "hmm...">>}

Word(start, end) == [start |-> start, end |-> end]

\* Word timings: none; five even words; uneven words with long pauses;
\* words that overlap or run backwards; eight words 0.5 s apart.
ScoreWords ==
    {<< >>,
     <<Word(0, 3), Word(3, 6), Word(6, 9), Word(9, 12), Word(12, 15)>>,
     <<Word(0, 1), Word(5, 15), Word(15, 16), Word(30, 31), Word(31, 40)>>,
     <<Word(0, 5), Word(3, 4), Word(2, 2), Word(10, 9), Word(9, 20)>>,
     [n \in 1..8 |-> Word(7 * n, 7 * n + 2)]}

ScoreStarts == {0, 90, 950}
ScoreDurations == {50, 150, 450}
ScoreTotals == {0, 1000}

\* What the LLM analysis can be: None, no moments, one moment over the
\* first 10 s with score 7, 12 or -3, one moment from 100 s to 120 s (it
\* begins where a segment of 5 s that starts at 95 s ends), or a moment
\* elsewhere followed by one over all of the video.
Analyses ==
    {None,
     [best_moments |-> << >>],
     [best_moments |-> <<LLMScored(0, 100, 700)>>],
     [best_moments |-> <<LLMScored(1000, 1200, 800)>>],
     [best_moments |-> <<LLMScored(0, 100, 1200)>>],
     [best_moments |-> <<LLMScored(0, 100, -300)>>],
     [best_moments |-> <<LLMScored(2000, 2100, 900),
                         LLMScored(0, 5000, 400)>>]}

\* The calls of one comparison: the same moment is scored twice.
Runs == 2

InitScore ==
    /\ \E text \in ScoreTexts, start \in ScoreStarts,
          duration \in ScoreDurations, words \in ScoreWords :
          segment = [start |-> start, end |-> start + duration,
                     text |-> text, words |-> words]
    /\ total_duration \in ScoreTotals
    /\ analysis \in Analyses
    /\ enabled \in BOOLEAN
    /\ scored = << >>
    /\ WorkerIdle /\ MergeIdle /\ RenderIdle /\ SelectIdle

\* Variant: a call uses up the analysis it was given.
CalculateScore_consuming ==
    /\ segment # None
    /\ Len(scored) < Runs
    /\ scored' = Append(scored, calculate_score(segment, total_duration,
                                                analysis, enabled))
    /\ analysis' = None
    /\ UNCHANGED <<segment, total_duration, enabled, walletVars, taskVars,
                   addVars, mergeVars, renderVars, selectVars>>

\* scoring.py:205-211: score_breakdown = {}; self._calculate_score(...).
\* The call reads its arguments, the settings and llm_service.enabled and
\* writes only the dictionary it was given.
CalculateScore ==
    /\ segment # None
    /\ Len(scored) < Runs
    /\ scored' = Append(scored, calculate_score(segment, total_duration,
                                                analysis, enabled))
    /\ UNCHANGED <<segment, total_duration, analysis, enabled, walletVars,
                   taskVars, addVars, mergeVars, renderVars, selectVars>>

NextScore == CalculateScore

SpecScore == InitScore /\ [][NextScore]_vars

(***************************************************************************)
(* Properties of the scoring                                               *)
(***************************************************************************)

\* C16: the breakdown of every scored moment has exactly the keys energy,
\* tempo, pauses, punctuation, speech_pace, structure, hook and llm, and
\* every value lies in [0, 10], whatever the text, the word timings and
\* the external relevance scores are.
C16_BreakdownInRange ==
    \A n \in 1..Len(scored) :
        /\ DOMAIN scored[n].breakdown = BreakdownKeys
        /\ \A key \in DOMAIN scored[n].breakdown :
              /\ 0 <= scored[n].breakdown[key]
              /\ scored[n].breakdown[key] <= 1000

Flagged ==
    IF analysis = None \/ ~enabled THEN << >> ELSE analysis.best_moments

\* The half-open intervals [seg.start, seg.end) and [m.start, m.end) share
\* a point
OverlapsHalfOpen(seg, m) == seg.start < m.end /\ m.start < seg.end

\* C25: the external-relevance sub-score of a moment is the 0-10 score of
\* a flagged interval that overlaps the moment's half-open interval
\* [start, end); a moment that overlaps no flagged interval, also one that
\* only touches a flagged interval at an endpoint, gets the sub-score 0.
\* (Stated for flagged intervals whose scores are in 0-10.)
C25_HalfOpenOverlap ==
    \A n \in 1..Len(scored) :
        (\A k \in 1..Len(Flagged) :
            0 <= Flagged[k].score /\ Flagged[k].score <= 1000) =>
            LET over == { k \in 1..Len(Flagged) :
                            OverlapsHalfOpen(segment, Flagged[k]) }
            IN  IF over = {}
                  THEN scored[n].breakdown.llm = 0
                  ELSE \E k \in over :
                          scored[n].breakdown.llm = Flagged[k].score
====
